---- MODULE Spec2Model ----
(***************************************************************************)
(* A model of the offgrid Bluetooth chat core: BluetoothService            *)
(* (src/src/services/bluetoothService.ts) and the send path of             *)
(* ChatInterface.handleSendMessage (src/unnamed/part_000).                 *)
(*                                                                         *)
(* JavaScript runs one handler at a time; an async method runs up to its   *)
(* next `await` of a Transport call as one step, and resumes as a later    *)
(* step when that call settles.  Every such resumption is an action here,  *)
(* and the outcome of each Transport call (resolve / reject) is an input.  *)
(*                                                                         *)
(* Spec, SpecDisconnect and SpecConnect run the connection lifecycle with  *)
(* concurrent calls; SpecSend and SpecReceive run the message pipeline     *)
(* over the lifecycle of one peer.  They differ in the operations whose    *)
(* steps are recorded in ev.                                               *)
(***************************************************************************)
EXTENDS Integers, Sequences, FiniteSets, Bags, TLC

(* ------------------------------ bounds -------------------------------- *)
\* Pending asynchronous service calls (connect, disconnect, send, cleanup).
MaxInflight == 2
\* Scan window timers (setTimeout) that may be pending at once.
MaxTimers == 2
\* Notifications kept in the log of raised notifications.
MaxLog == 3

(* ---------------------------- input sets ------------------------------ *)
\* An absent value (undefined / no entry).
None == [none |-> TRUE]

\* Text is a sequence of one-character strings.
Id1 == <<"A", "A", ":", "0", "1">>
Id2 == <<"B", "B", ":", "0", "2">>
DeviceIds == {Id1, Id2}

\* What `new Date()` / `Date.now()` may return when a handler reads it.
Times == {0, 1}

NameBob == <<"B", "o", "b">>
\* What a scan result carries: device.name ("" when the peer reports none)
\* and rssi.
ScanResults ==
    { [name |-> <<>>,    rssi |-> -70],
      [name |-> NameBob, rssi |-> -40] }
\* The discovery events of the model: the peer Id1 is heard unnamed and
\* weak at time 0 or named and strong at time 1, the peer Id2 always the
\* same way.
ScanInputs ==
    { [id |-> Id1, result |-> [name |-> <<>>,    rssi |-> -70], at |-> 0],
      [id |-> Id1, result |-> [name |-> NameBob, rssi |-> -40], at |-> 1],
      [id |-> Id2, result |-> [name |-> <<>>,    rssi |-> -70], at |-> 0] }

\* Salts CryptoJS may draw for one encryption.
Salts == {1, 2}

TextHi  == <<"h", "i">>
TextSsn == <<"m", "y", " ", "s", "s", "n", " ", "i", "s", " ",
             "1", "2", "3", "-", "4", "5", "-", "6", "7", "8", "9">>
TextCard == <<"4", "1", "1", "1", " ", "1", "1", "1", "1", " ",
              "1", "1", "1", "1", " ", "1", "1", "1", "1">>
TextPlural == <<"p", "a", "s", "s", "w", "o", "r", "d", "s">>
TextBlank == <<" ">>
\* What the user may have typed into the message box.
Texts == {TextHi, TextSsn, TextCard, TextPlural, TextBlank}

\* Texts for the moderation gate, each made of a middle part that does or
\* does not hold a match of one of the three patterns, between a start and
\* an end that do or do not leave it standing as a word of its own.
CheckStarts ==
    { [s |-> <<>>, open |-> TRUE],
      [s |-> <<"m", "y", " ">>, open |-> TRUE],
      [s |-> <<"x">>, open |-> FALSE],
      [s |-> <<"1">>, open |-> FALSE] }
CheckEnds ==
    { [s |-> <<>>, open |-> TRUE],
      [s |-> <<" ", "o", "k">>, open |-> TRUE],
      [s |-> <<"s">>, open |-> FALSE],
      [s |-> <<"0">>, open |-> FALSE],
      [s |-> <<".">>, open |-> TRUE] }
CheckMiddles ==
    { [s |-> <<"p", "a", "s", "s", "w", "o", "r", "d">>, hit |-> TRUE],
      [s |-> <<"S", "S", "N">>, hit |-> TRUE],
      [s |-> <<"S", "o", "c", "i", "a", "l", " ", "S", "e", "c", "u", "r", "i", "t", "y">>, hit |-> TRUE],
      [s |-> <<"c", "r", "e", "d", "i", "t", " ", "c", "a", "r", "d">>, hit |-> TRUE],
      [s |-> <<"b", "a", "n", "k", " ", "a", "c", "c", "o", "u", "n", "t">>, hit |-> TRUE],
      [s |-> <<"1", "2", "3", "-", "4", "5", "-", "6", "7", "8", "9">>, hit |-> TRUE],
      [s |-> <<"1", "2", "3", "4", "5", "6", "7", "8", "9">>, hit |-> FALSE],
      [s |-> <<"4", "1", "1", "1", " ", "1", "1", "1", "1", " ", "1", "1", "1", "1", " ", "1", "1", "1", "1">>, hit |-> TRUE],
      [s |-> <<"4", "1", "1", "1", "-", "1", "1", "1", "1", "-", "1", "1", "1", "1", "-", "1", "1", "1", "1">>, hit |-> TRUE],
      [s |-> <<"4", "1", "1", "1", "1", "1", "1", "1", "1", "1", "1", "1", "1", "1", "1", "1">>, hit |-> TRUE],
      [s |-> <<"4", "1", "1", "1", " ", "1", "1", "1", "1", " ", "1", "1", "1", "1">>, hit |-> FALSE],
      [s |-> <<"h", "e", "l", "l", "o", " ", "t", "h", "e", "r", "e">>, hit |-> FALSE],
      [s |-> <<"p", "a", "s", "s", " ", "w", "o", "r", "d">>, hit |-> FALSE] }
TextHello == <<"h", "e", "l", "l", "o", " ", "t", "h", "e", "r", "e">>
\* Each text with whether it holds a match.
CheckInputs ==
    { [text |-> p.s \o c.s \o s.s, sensitive |-> (p.open /\ c.hit /\ s.open)] :
        p \in CheckStarts, c \in CheckMiddles, s \in CheckEnds }
    \cup { [text |-> TextSsn, sensitive |-> TRUE],
           [text |-> TextCard, sensitive |-> TRUE],
           [text |-> TextHello, sensitive |-> FALSE] }

(* ------------------------------ state --------------------------------- *)
VARIABLES
    devices,      \* BluetoothService.devices: id -> ChatDevice, or None
    connections,  \* BluetoothService.connections: its keys in insertion order
    pending,      \* bag of service calls suspended at an await
    cleanupCall,  \* the suspended cleanup() call, or None
    scanning,     \* Transport: is the LE scan with the discovery callback on
    timers,       \* pending setTimeout callbacks armed by startScanning
    subs,         \* Transport: ids with a notification callback registered
    ev,           \* what the last step did and returned (observation only)
    watch,        \* the operations whose steps are recorded in ev
    log,          \* notifications raised and ChatMessages handed to onMessage
    links         \* Transport: ids with an open link (kept under watch)

vars == <<devices, connections, pending, cleanupCall, scanning, timers,
          subs, ev, watch, log, links>>

\* Did a Transport call of the step e fail.
TransportFailed(e) ==
    \/ "ok" \in DOMAIN e /\ ~e.ok
    \/ "connectOk" \in DOMAIN e /\ ~(e.connectOk /\ e.servicesOk)

\* The outcome of a step alone: what it returned or threw, and whether a
\* Transport call of it failed.
Outcome(e) ==
    [ op     |-> e.op,
      ret    |-> IF "ret" \in DOMAIN e THEN e.ret ELSE "void",
      failed |-> TransportFailed(e) ]

\* The record of a step, kept in ev when its operation is being watched;
\* under the watch of outcomes, the outcome of every step is kept.
Observe(e) ==
    IF e.op \in watch THEN e
    ELSE IF "outcome" \in watch THEN Outcome(e)
    ELSE [op |-> "other"]

(* ------------------------------ helpers ------------------------------- *)
\* String.prototype.slice(-4): the last four characters (all, if fewer).
SliceLast4(s) ==
    IF Len(s) <= 4 THEN s ELSE SubSeq(s, Len(s) - 3, Len(s))

DevicePrefix == <<"D", "e", "v", "i", "c", "e", "_">>

\* result.device.name || `Device_${result.device.deviceId.slice(-4)}`
DisplayName(id, reported) ==
    IF reported = <<>> THEN DevicePrefix \o SliceLast4(id) ELSE reported

\* Map.prototype.has on connections.
HasConnection(id) == \E i \in 1..Len(connections) : connections[i] = id

\* Index of id among the keys of connections (0 when absent).
KeyIndex(conns, id) ==
    IF \E i \in 1..Len(conns) : conns[i] = id
    THEN CHOOSE i \in 1..Len(conns) : conns[i] = id
    ELSE 0

\* Map.prototype.set on connections: a present key keeps its place, a new
\* key goes last.
ConnSet(conns, id) ==
    IF KeyIndex(conns, id) = 0 THEN Append(conns, id) ELSE conns

\* Map.prototype.delete on connections.
ConnDelete(conns, id) ==
    LET k == KeyIndex(conns, id)
    IN  IF k = 0 THEN conns
        ELSE SubSeq(conns, 1, k - 1) \o SubSeq(conns, k + 1, Len(conns))

Inflight ==
    BagCardinality(pending) + (IF cleanupCall = None THEN 0 ELSE 1)

BagAdd(b, x) == b (+) SetToBag({x})
BagRemove(b, x) == b (-) SetToBag({x})

Ids(conns) == { conns[i] : i \in 1..Len(conns) }

(* ------------------------------- Init --------------------------------- *)
InitService ==
    /\ devices = [d \in DeviceIds |-> None]
    /\ connections = <<>>
    /\ pending = EmptyBag
    /\ cleanupCall = None
    /\ scanning = FALSE
    /\ timers = 0
    /\ subs = {}
    /\ ev = [op |-> "init"]
    /\ log = [raised |-> <<>>, handed |-> <<>>]
    /\ links = {}

\* The watched operations of each specification.
WatchDiscovery == {"discovery"}
WatchDisconnect == {"disconnect", "cleanup"}
WatchConnect == {"connectCall", "connect"}
WatchSend == {"handleSend", "sendCall", "send", "sendDone"}
WatchReceive == {"notification"}
WatchOrder == {"order"}
WatchCleanup == {"cleanup", "cleanupLoop"}
WatchOutcome == {"outcome"}
WatchLinks == {"links"}
WatchInflight == {"cleanup", "connect"}
WatchCheck == {"check"}
WatchNoSession == {"disconnectCall", "disconnect"}
WatchScan == {"startScanning", "stopScanning", "scanTimer", "discovery"}

Init == InitService /\ watch = WatchDiscovery
InitDisconnect == InitService /\ watch = WatchDisconnect
InitConnect == InitService /\ watch = WatchConnect
InitSend == InitService /\ watch = WatchSend
InitReceive == InitService /\ watch = WatchReceive
InitOrder == InitService /\ watch = WatchOrder
InitCleanup == InitService /\ watch = WatchCleanup
InitScan == InitService /\ watch = WatchScan
InitOutcome == InitService /\ watch = WatchOutcome
InitLinks == InitService /\ watch = WatchLinks
InitInflight == InitService /\ watch = WatchInflight
InitCheck == InitService /\ watch = WatchCheck
InitNoSession == InitService /\ watch = WatchNoSession

(* ---------------------------- initialize ------------------------------ *)
\* An initialize whose catch only logs.
InitializeResultSwallowed(ok) == "void"
\* initialize(): await BleClient.initialize(); the catch logs and rethrows.
InitializeResult(ok) == IF ok THEN "void" ELSE "throws"

\* initialize() keeps nothing in the service.
Initialize(ok) ==
    /\ ev' = Observe([op |-> "initialize", ret |-> InitializeResult(ok),
              ok |-> ok])
    /\ UNCHANGED <<watch, log, links, devices, connections, pending, cleanupCall,
                   scanning, timers, subs>>

(* ----------------------------- scanning ------------------------------- *)
\* The discovery callback of requestLEScan.
UpsertDevice(id, result, t) ==
    [ name      |-> DisplayName(id, result.name),
      rssi      |-> result.rssi,
      connected |-> FALSE,
      lastSeen  |-> t ]

DiscoveryEvent(id, result, t) ==
    /\ scanning
    /\ devices' = [devices EXCEPT ![id] = UpsertDevice(id, result, t)]
    /\ ev' = Observe([op |-> "discovery", id |-> id, known |-> devices[id] # None,
              wasConnected |-> (devices[id] # None /\ devices[id].connected),
              hadSession |-> HasConnection(id)])
    /\ UNCHANGED <<watch, log, links, connections, pending, cleanupCall, scanning, timers,
                   subs>>

\* stopScanning(): BleClient.stopLEScan(); a rejection is logged.
StopLEScan(ok) == IF ok THEN FALSE ELSE scanning

\* A startScanning that arms its timer before requestLEScan has settled.
TimersArmedFirst(n, ok) == n + 1
\* startScanning after `await BleClient.requestLEScan(...)`: setTimeout is
\* reached only when the request resolved.
TimersAfterStart(n, ok) == IF ok THEN n + 1 ELSE n

\* A startScanning whose catch only logs.
StartScanResultSwallowed(ok) == "devices"
\* startScanning returns the device list; its catch logs and rethrows.
StartScanResult(ok) == IF ok THEN "devices" ELSE "throws"

\* startScanning(): requestLEScan, whatever scan there is already, then
\* arm the 10 s timer and return the list.
StartScanning(ok) ==
    /\ ok => timers < MaxTimers
    /\ scanning' = (ok \/ scanning)
    /\ timers' = TimersAfterStart(timers, ok)
    /\ ev' = Observe([op |-> "startScanning", ret |-> StartScanResult(ok),
              ok |-> ok, wasScanning |-> scanning,
              tcalls |-> <<"requestLEScan">>,
              armed |-> timers' - timers])
    /\ UNCHANGED <<watch, log, links, devices, connections, pending, cleanupCall, subs>>

StopScanning(ok) ==
    /\ scanning' = StopLEScan(ok)
    /\ ev' = Observe([op |-> "stopScanning", ret |-> "void", ok |-> ok,
              wasScanning |-> scanning])
    /\ UNCHANGED <<watch, log, links, devices, connections, pending, cleanupCall, timers,
                   subs>>

\* The setTimeout callback of startScanning: await this.stopScanning().
ScanTimerFires(ok) ==
    /\ timers > 0
    /\ timers' = timers - 1
    /\ scanning' = StopLEScan(ok)
    /\ ev' = Observe([op |-> "scanTimer", ret |-> "void", ok |-> ok])
    /\ UNCHANGED <<watch, log, links, devices, connections, pending, cleanupCall, subs>>

(* ----------------------------- connect -------------------------------- *)
\* The Transport's links, kept when they are under watch: a resolved
\* BleClient.connect(id) opens the link to id and a resolved
\* BleClient.disconnect(id) closes it; a rejected call leaves it as it is.
LinkOpened(id, ok) ==
    IF "links" \in watch /\ ok THEN links \cup {id} ELSE links
LinkClosed(id, ok) ==
    IF "links" \in watch /\ ok THEN links \ {id} ELSE links
\* connectToDevice after a rejected getServices: the catch logs and returns
\* false; no BleClient.disconnect is called.
LinksAfterFailedConnect(id) == links

\* `const device = this.devices.get(deviceId)`: the suspended call keeps a
\* reference to the ChatDevice object it read.  Only `connected` of such an
\* object is ever assigned after its creation, and the call assigns it
\* before writing the object back, so the reference is kept as the
\* object's other fields.
HoldDevice(id) ==
    IF devices[id] = None THEN None
    ELSE [ name     |-> devices[id].name,
           rssi     |-> devices[id].rssi,
           lastSeen |-> devices[id].lastSeen ]

\* A lookup that lets every id through.
ConnectLookupNever(id) == FALSE
\* `if (!device) { throw new Error('Device not found'); }`
ConnectLookupFails(id) == devices[id] = None

\* Is a connect for id under way, or a Session for it there?
ConnectBusy(id) ==
    \/ HasConnection(id)
    \/ \E c \in BagToSet(pending) : c.op = "connect" /\ c.id = id

\* connectToDevice up to `await BleClient.connect(deviceId)`.
ConnectCall(id) ==
    IF ConnectLookupFails(id)
    THEN \* the throw is caught: return false
         /\ ev' = Observe([op |-> "connect", id |-> id, ret |-> FALSE,
                   tcalls |-> <<>>, known |-> devices[id] # None])
         /\ UNCHANGED <<watch, log, links, devices, connections, pending, cleanupCall,
                        scanning, timers, subs>>
    ELSE /\ Inflight < MaxInflight
         /\ pending' = BagAdd(pending,
                [op |-> "connect", id |-> id, stage |-> "connect",
                 held |-> HoldDevice(id)])
         /\ ev' = Observe([op |-> "connectCall", id |-> id, ret |-> "pending",
                   tcalls |-> <<"connect">>, known |-> devices[id] # None,
                   busy |-> ConnectBusy(id)])
         /\ UNCHANGED <<watch, log, links, devices, connections, cleanupCall, scanning,
                        timers, subs>>

\* BleClient.connect settles; on success the call goes on to
\* `await BleClient.getServices(deviceId)`.
ConnectSettles(c, ok) ==
    /\ c \in BagToSet(pending)
    /\ c.op = "connect" /\ c.stage = "connect"
    /\ IF ok
       THEN /\ pending' = BagAdd(BagRemove(pending, c),
                                 [c EXCEPT !.stage = "services"])
            /\ ev' = Observe([op |-> "connectStep", id |-> c.id, ret |-> "pending",
                      tcalls |-> <<"getServices">>])
       ELSE /\ pending' = BagRemove(pending, c)
            /\ ev' = Observe([op |-> "connect", id |-> c.id, ret |-> FALSE,
                      tcalls |-> <<>>, known |-> TRUE,
                      connectOk |-> FALSE, servicesOk |-> FALSE])
    /\ links' = LinkOpened(c.id, ok)
    /\ UNCHANGED <<watch, log, devices, connections, cleanupCall, scanning,
                   timers, subs>>

\* A write-back that leaves out `device.connected = true`.
ConnectCommitUnmarked(c) ==
    [devices EXCEPT ![c.id] =
        [ name      |-> c.held.name,
          rssi      |-> c.held.rssi,
          connected |-> devices[c.id].connected,
          lastSeen  |-> c.held.lastSeen ]]
\* device.connected = true; this.devices.set(deviceId, device)
ConnectCommitDevices(c) ==
    [devices EXCEPT ![c.id] =
        [ name      |-> c.held.name,
          rssi      |-> c.held.rssi,
          connected |-> TRUE,
          lastSeen  |-> c.held.lastSeen ]]

\* BleClient.getServices settles.
ServicesSettle(c, ok) ==
    /\ c \in BagToSet(pending)
    /\ c.op = "connect" /\ c.stage = "services"
    /\ IF ok
       THEN /\ connections' = ConnSet(connections, c.id)
            /\ devices' = ConnectCommitDevices(c)
            /\ pending' = BagRemove(pending, c)
       ELSE /\ pending' = BagRemove(pending, c)
            /\ UNCHANGED <<devices, connections>>
    /\ ev' = Observe([op |-> "connect", id |-> c.id, ret |-> ok, tcalls |-> <<>>,
              known |-> TRUE, connectOk |-> TRUE, servicesOk |-> ok,
              hadSession |-> HasConnection(c.id)])
    /\ links' = IF ok THEN links ELSE LinksAfterFailedConnect(c.id)
    /\ UNCHANGED <<watch, log, cleanupCall, scanning, timers, subs>>

(* ---------------------------- disconnect ------------------------------ *)
\* The live iterator of `for (const deviceId of this.connections.keys())`
\* in a suspended cleanup(): `pos` keys at the front of connections are
\* behind its cursor, so a deletion among them moves the cursor with them.
CursorAfterDelete(call, conns, id) ==
    IF call = None THEN call
    ELSE IF KeyIndex(conns, id) # 0 /\ KeyIndex(conns, id) <= call.pos
         THEN [call EXCEPT !.pos = call.pos - 1]
         ELSE call

\* A direct disconnectFromDevice removed the Session of id while the
\* cleanup() was suspended.
CleanupBypassed(call, id) ==
    IF call # None /\ "cleanupLoop" \in watch
    THEN [call EXCEPT !.gone = @ \cup {id}]
    ELSE call

\* A disconnect that drops the device from the registry.
MarkForgotten(devs, id) == [devs EXCEPT ![id] = None]
\* device.connected = false; this.devices.set(deviceId, device)
MarkDisconnected(devs, id) ==
    IF devs[id] = None THEN devs
    ELSE [devs EXCEPT ![id] = [devs[id] EXCEPT !.connected = FALSE]]

\* disconnectFromDevice after `await BleClient.disconnect(deviceId)`:
\* the statements after the await run only when it resolved; a rejection
\* goes to the catch, which logs.
DisconnectConnections(id, ok) ==
    IF ok THEN ConnDelete(connections, id) ELSE connections

DisconnectDevices(id, ok) ==
    IF ok THEN MarkDisconnected(devices, id) ELSE devices

\* disconnectFromDevice up to `await BleClient.disconnect(deviceId)`.
DisconnectCall(id) ==
    /\ Inflight < MaxInflight
    /\ pending' = BagAdd(pending, [op |-> "disconnect", id |-> id])
    /\ ev' = Observe([op |-> "disconnectCall", id |-> id, ret |-> "pending",
              tcalls |-> <<"disconnect">>])
    /\ UNCHANGED <<watch, log, links, devices, connections, cleanupCall, scanning, timers,
                   subs>>

\* BleClient.disconnect settles for a direct disconnectFromDevice call.
DisconnectSettles(c, ok) ==
    /\ c \in BagToSet(pending)
    /\ c.op = "disconnect"
    /\ pending' = BagRemove(pending, c)
    /\ connections' = DisconnectConnections(c.id, ok)
    /\ devices' = DisconnectDevices(c.id, ok)
    /\ cleanupCall' =
          IF ok /\ HasConnection(c.id)
          THEN CleanupBypassed(
                   CursorAfterDelete(cleanupCall, connections, c.id), c.id)
          ELSE cleanupCall
    /\ ev' = Observe([op |-> "disconnect", id |-> c.id, ret |-> "void",
              ok |-> ok, hadSession |-> HasConnection(c.id)])
    /\ links' = LinkClosed(c.id, ok)
    /\ UNCHANGED <<watch, log, scanning, timers, subs>>

(* ------------------------------ cleanup ------------------------------- *)
\* The loop head of cleanup(): take the next key of the live iterator and
\* call disconnectFromDevice on it, or leave the loop for stopScanning().
CleanupAdvance(call, conns) ==
    IF call.pos < Len(conns)
    THEN [call EXCEPT !.stage = "disconnect",
                      !.cur = conns[call.pos + 1],
                      !.pos = call.pos + 1]
    ELSE [call EXCEPT !.stage = "stop", !.cur = None]

\* A cleanup() that leaves its loop at the first failed disconnect.
CleanupBreaks(call, conns) ==
    [call EXCEPT !.stage = "stop", !.cur = None]
\* cleanup() after a disconnectFromDevice whose Transport disconnect
\* rejected: disconnectFromDevice caught and logged it, so the loop goes on.
CleanupOnFailure(call, conns) == CleanupAdvance(call, conns)

\* What is kept of a cleanup() under watch: the ids it called
\* disconnectFromDevice on, and those whose Transport disconnect rejected.
CleanupNoted(call, id, ok) ==
    [call EXCEPT
       !.attempted = IF "cleanupLoop" \in watch THEN @ \cup {id} ELSE @,
       !.failed = IF "cleanup" \in watch /\ ~ok THEN @ \cup {id} ELSE @]

CleanupCalls(call) ==
    IF call.stage = "disconnect" THEN <<"disconnect">> ELSE <<"stopLEScan">>

\* cleanup() up to its first await.
CleanupCall ==
    /\ cleanupCall = None
    /\ Inflight < MaxInflight
    /\ cleanupCall' = CleanupAdvance(
            [stage |-> "start", cur |-> None, pos |-> 0,
             atCall |-> IF "cleanup" \in watch THEN Ids(connections)
                        ELSE {},
             failed |-> {}, attempted |-> {}, gone |-> {}], connections)
    /\ ev' = Observe([op |-> "cleanupCall", ret |-> "pending",
              tcalls |-> CleanupCalls(cleanupCall')])
    /\ UNCHANGED <<watch, log, links, devices, connections, pending, scanning, timers, subs>>

\* BleClient.disconnect settles for the disconnectFromDevice call that
\* cleanup() awaits; the loop then goes on.
CleanupDisconnectSettles(ok) ==
    /\ cleanupCall # None
    /\ cleanupCall.stage = "disconnect"
    /\ connections' = DisconnectConnections(cleanupCall.cur, ok)
    /\ devices' = DisconnectDevices(cleanupCall.cur, ok)
    /\ LET noted == CleanupNoted(cleanupCall, cleanupCall.cur, ok)
       IN  cleanupCall' =
             IF ok
             THEN CleanupAdvance(
                      CursorAfterDelete(noted, connections, cleanupCall.cur),
                      connections')
             ELSE CleanupOnFailure(noted, connections')
    /\ ev' = Observe([op |-> "cleanupStep", id |-> cleanupCall.cur,
              ret |-> "pending", ok |-> ok,
              tcalls |-> CleanupCalls(cleanupCall')])
    /\ links' = LinkClosed(cleanupCall.cur, ok)
    /\ UNCHANGED <<watch, log, pending, scanning, timers, subs>>

\* BleClient.stopLEScan settles for the stopScanning() call that cleanup()
\* awaits; cleanup() returns.
CleanupStopSettles(ok) ==
    /\ cleanupCall # None
    /\ cleanupCall.stage = "stop"
    /\ scanning' = StopLEScan(ok)
    /\ cleanupCall' = None
    /\ ev' = Observe([op |-> "cleanup", ret |-> "void", ok |-> ok,
              atCall |-> cleanupCall.atCall,
              failed |-> cleanupCall.failed,
              attempted |-> cleanupCall.attempted,
              gone |-> cleanupCall.gone])
    /\ UNCHANGED <<watch, log, links, devices, connections, pending, timers, subs>>

(* ----------------------- content moderation --------------------------- *)
Digits == {"0", "1", "2", "3", "4", "5", "6", "7", "8", "9"}
LowerLetters == <<"a", "b", "c", "d", "e", "f", "g", "h", "i", "j", "k",
                  "l", "m", "n", "o", "p", "q", "r", "s", "t", "u", "v",
                  "w", "x", "y", "z">>
UpperLetters == <<"A", "B", "C", "D", "E", "F", "G", "H", "I", "J", "K",
                  "L", "M", "N", "O", "P", "Q", "R", "S", "T", "U", "V",
                  "W", "X", "Y", "Z">>

\* The regular expression classes \d, \w and \s.
IsDigit(c) == c \in Digits
IsWordChar(c) ==
    \/ c \in Digits
    \/ c = "_"
    \/ \E k \in 1..26 : c = LowerLetters[k] \/ c = UpperLetters[k]
IsSpace(c) == c \in {" ", "\t", "\n", "\r", "\f"}

\* Case folding of the /i flag.
ToLower(c) ==
    IF \E k \in 1..26 : c = UpperLetters[k]
    THEN LowerLetters[CHOOSE k \in 1..26 : c = UpperLetters[k]]
    ELSE c

IsWordAt(t, i) == i \in 1..Len(t) /\ IsWordChar(t[i])
\* \b between the characters i-1 and i of t.
WordBoundary(t, i) == IsWordAt(t, i - 1) # IsWordAt(t, i)

\* \d{n} at position i.
DigitsAt(t, i, n) ==
    /\ i >= 1 /\ i + n - 1 <= Len(t)
    /\ \A k \in 0..(n - 1) : IsDigit(t[i + k])

\* [-\s]? at position i: the position after it.
SkipSeparator(t, i) ==
    IF i \in 1..Len(t) /\ (t[i] = "-" \/ IsSpace(t[i])) THEN i + 1 ELSE i

KwPassword == <<"p", "a", "s", "s", "w", "o", "r", "d">>
KwSsn == <<"s", "s", "n">>
KwSocialSecurity == <<"s", "o", "c", "i", "a", "l", " ",
                      "s", "e", "c", "u", "r", "i", "t", "y">>
KwCreditCard == <<"c", "r", "e", "d", "i", "t", " ", "c", "a", "r", "d">>
KwBankAccount == <<"b", "a", "n", "k", " ",
                   "a", "c", "c", "o", "u", "n", "t">>
Keywords == {KwPassword, KwSsn, KwSocialSecurity, KwCreditCard,
             KwBankAccount}

\* The keyword pattern without its \b.
KeywordAtAnywhere(t, i, kw) ==
    /\ i + Len(kw) - 1 <= Len(t)
    /\ \A k \in 1..Len(kw) : ToLower(t[i + k - 1]) = kw[k]

\* /\b(?:password|ssn|social security|credit card|bank account)\b/i
KeywordAt(t, i, kw) ==
    /\ i + Len(kw) - 1 <= Len(t)
    /\ \A k \in 1..Len(kw) : ToLower(t[i + k - 1]) = kw[k]
    /\ WordBoundary(t, i)
    /\ WordBoundary(t, i + Len(kw))

MatchesKeyword(t) ==
    \E i \in 1..Len(t) : \E kw \in Keywords : KeywordAt(t, i, kw)

\* /\b\d{4}[-\s]?\d{4}[-\s]?\d{4}[-\s]?\d{4}\b/
CardAt(t, i) ==
    LET p2 == SkipSeparator(t, i + 4)
        p3 == SkipSeparator(t, p2 + 4)
        p4 == SkipSeparator(t, p3 + 4)
    IN  /\ WordBoundary(t, i)
        /\ DigitsAt(t, i, 4)
        /\ DigitsAt(t, p2, 4)
        /\ DigitsAt(t, p3, 4)
        /\ DigitsAt(t, p4, 4)
        /\ WordBoundary(t, p4 + 4)

MatchesCard(t) == \E i \in 1..Len(t) : CardAt(t, i)

\* /\b\d{3}-\d{2}-\d{4}\b/
SsnAt(t, i) ==
    /\ WordBoundary(t, i)
    /\ DigitsAt(t, i, 3)
    /\ i + 3 <= Len(t) /\ t[i + 3] = "-"
    /\ DigitsAt(t, i + 4, 2)
    /\ i + 6 <= Len(t) /\ t[i + 6] = "-"
    /\ DigitsAt(t, i + 7, 4)
    /\ WordBoundary(t, i + 11)

MatchesSsn(t) == \E i \in 1..Len(t) : SsnAt(t, i)

ModerationReason == "Message contains potentially sensitive information"

\* checkContentModeration(message)
CheckContentModeration(t) ==
    IF MatchesKeyword(t) \/ MatchesCard(t) \/ MatchesSsn(t)
    THEN [flagged |-> TRUE, reason |-> ModerationReason]
    ELSE [flagged |-> FALSE]

\* The gate's verdict on each text made for it.
CheckVerdicts == [c \in CheckInputs |-> CheckContentModeration(c.text)]

\* A call of checkContentModeration(message): it reads and writes nothing
\* of the service.
Check(c) ==
    /\ ev' = Observe([op |-> "check", text |-> c.text,
              sensitive |-> c.sensitive, ret |-> CheckVerdicts[c]])
    /\ UNCHANGED <<watch, log, links, devices, connections, pending, cleanupCall,
                   scanning, timers, subs>>

\* !newMessage.trim(): nothing but white space.
IsBlank(t) == \A i \in 1..Len(t) : IsSpace(t[i])

(* --------------------------- crypto and wire -------------------------- *)
EncryptionKey == "MeshChat_Secret_Key_2024"

\* CryptoJS.AES.encrypt(message, key).toString(): the salted OpenSSL text,
\* kept as what was sealed in it.
AesEncrypt(message, key, salt) ==
    [kind |-> "cipher", key |-> key, salt |-> salt, plain |-> message]

\* Texts that are no ciphertext of this key decrypt to whatever bytes their
\* content yields: none at all, bytes that are not UTF-8, or other text.
JunkKinds == {"empty", "malformed", "text"}
JunkText == <<"?">>
ForeignTexts == { [kind |-> "junk", yields |-> j] : j \in JunkKinds }

\* CryptoJS.AES.decrypt(text, key): the decrypted WordArray; it never throws.
AesDecrypt(text, key) ==
    IF text.kind = "cipher" /\ text.key = key
    THEN [utf8 |-> TRUE, text |-> text.plain]
    ELSE IF text.kind = "cipher" THEN [utf8 |-> FALSE]
    ELSE IF text.yields = "empty" THEN [utf8 |-> TRUE, text |-> <<>>]
    ELSE IF text.yields = "text" THEN [utf8 |-> TRUE, text |-> JunkText]
    ELSE [utf8 |-> FALSE]

\* WordArray.toString(CryptoJS.enc.Utf8): throws 'Malformed UTF-8 data' on
\* bytes that are not UTF-8.
Utf8Stringify(words) ==
    IF words.utf8 THEN [threw |-> FALSE, text |-> words.text]
    ELSE [threw |-> TRUE]

\* new TextEncoder().encode(text) and numbersToDataView(Array.from(..)).
TextEncode(text) == [bytes |-> "utf8", of |-> text]
\* Bytes that are the UTF-8 encoding of no text.
RawBytes == [bytes |-> "raw"]
\* new TextDecoder().decode(bytes): ill-formed bytes become U+FFFD, which
\* is no ciphertext.
TextDecode(data) ==
    IF data.bytes = "utf8" THEN data.of
    ELSE [kind |-> "junk", yields |-> "malformed"]

\* What a peer (or anyone in range) may write to the characteristic.
Payloads ==
    { TextEncode(AesEncrypt(TextHi, EncryptionKey, 1)),
      TextEncode(AesEncrypt(TextHi, "other key", 1)),
      RawBytes }
    \cup { TextEncode(f) : f \in ForeignTexts }

ValidPayload(data) ==
    /\ data.bytes = "utf8"
    /\ data.of.kind = "cipher"
    /\ data.of.key = EncryptionKey

(* -------------------------------- send -------------------------------- *)
\* sendMessage up to `await BleClient.write(...)`: the payload written.
SendPayload(message, salt) ==
    TextEncode(AesEncrypt(message, EncryptionKey, salt))

\* sendMessage: the Transport calls of one send, a single BleClient.write
\* of the whole payload to the message characteristic of the device.
SendWrites(id, message, salt) ==
    << [write |-> SendPayload(message, salt), to |-> id] >>

\* A sendMessage that returns true whatever the write did.
WriteResultTrue(ok) == TRUE
\* sendMessage after the write: `return true`, or `return false` from the
\* catch.
WriteResult(ok) == ok

\* The gate's verdict on each text of the model.
Verdicts == [t \in Texts |-> CheckContentModeration(t)]

\* A handleSendMessage that goes on whatever the verdict.
PassesGateAlways(text) == TRUE
\* handleSendMessage: `if (moderation.flagged) { ...; return; }`.
PassesGate(text) == ~Verdicts[text].flagged

\* A sendMessage without the Session check.
SendRefusedNever(id) == FALSE
\* sendMessage: `if (!this.connections.has(deviceId)) { throw ... }`
SendRefused(id) == ~HasConnection(id)

\* ChatInterface.handleSendMessage for the chat with `id`, up to the await
\* of BleClient.write inside sendMessage.  The send button is disabled
\* while a send is under way.
HandleSendMessage(id, text, salt) ==
    /\ \A c \in BagToSet(pending) : c.op # "send"
    /\ IF IsBlank(text)
       THEN /\ ev' = Observe([op |-> "handleSend", id |-> id, text |-> text,
                      ret |-> "ignored", tcalls |-> <<>>])
            /\ UNCHANGED pending
       ELSE IF ~PassesGate(text)
       THEN /\ ev' = Observe([op |-> "handleSend", id |-> id, text |-> text,
                      ret |-> "flagged", tcalls |-> <<>>,
                      warning |-> Verdicts[text].reason])
            /\ UNCHANGED pending
       ELSE IF SendRefused(id)
       THEN \* sendMessage: the throw is caught: return false
            /\ ev' = Observe([op |-> "send", id |-> id, text |-> text,
                      ret |-> FALSE, tcalls |-> <<>>,
                      hadSession |-> HasConnection(id)])
            /\ UNCHANGED pending
       ELSE /\ Inflight < MaxInflight
            /\ pending' = BagAdd(pending,
                    [op |-> "send", id |-> id, text |-> text])
            /\ ev' = Observe([op |-> "sendCall", id |-> id, text |-> text,
                      ret |-> "pending",
                      tcalls |-> SendWrites(id, text, salt),
                      hadSession |-> HasConnection(id)])
    /\ UNCHANGED <<watch, log, links, devices, connections, cleanupCall, scanning, timers,
                   subs>>

\* BleClient.write settles: sendMessage returns true, or false from the
\* catch.
WriteSettles(c, ok) ==
    /\ c \in BagToSet(pending)
    /\ c.op = "send"
    /\ pending' = BagRemove(pending, c)
    /\ ev' = Observe([op |-> "sendDone", id |-> c.id, text |-> c.text,
              ret |-> WriteResult(ok), ok |-> ok, tcalls |-> <<>>])
    /\ UNCHANGED <<watch, log, links, devices, connections, cleanupCall, scanning, timers,
                   subs>>

(* ------------------------------ receive ------------------------------- *)
\* startMessageListener: BleClient.startNotifications registers the
\* callback for the device's characteristic; a rejection is logged.
StartMessageListener(id, ok) ==
    /\ subs' = IF ok THEN subs \cup {id} ELSE subs
    /\ ev' = Observe([op |-> "startMessageListener", id |-> id, ret |-> "void",
              ok |-> ok])
    /\ UNCHANGED <<watch, log, links, devices, connections, pending, cleanupCall, scanning,
                   timers>>

\* A callback that marks what it received as sent by this side.
DeliveredAsSent(id, data, t) ==
    LET decrypted == Utf8Stringify(AesDecrypt(TextDecode(data),
                                              EncryptionKey))
    IN  IF decrypted.threw THEN <<>>
        ELSE << [ id        |-> ToString(t),
                  deviceId  |-> id,
                  message   |-> decrypted.text,
                  timestamp |-> t,
                  sent      |-> TRUE,
                  encrypted |-> TRUE ] >>

\* The notification callback: the ChatMessages handed to onMessage.
Delivered(id, data, t) ==
    LET decrypted == Utf8Stringify(AesDecrypt(TextDecode(data),
                                              EncryptionKey))
    IN  IF decrypted.threw THEN <<>>
        ELSE << [ id        |-> ToString(t),
                  deviceId  |-> id,
                  message   |-> decrypted.text,
                  timestamp |-> t,
                  sent      |-> FALSE,
                  encrypted |-> TRUE ] >>

\* A callback without the try/catch: what throws inside it leaves it.
CallbackRaisesUncaught(decodeThrew, handlerThrew) ==
    decodeThrew \/ handlerThrew
\* The callback's `try { ... onMessage(chatMessage); } catch (error) {
\* console.error(...) }`: a throw of the decoding or of onMessage is caught
\* and logged, and nothing leaves the callback.
CallbackRaises(decodeThrew, handlerThrew) == FALSE

\* An onMessage that puts its message before the earlier ones.
HandOverFirst(handed, delivered) == delivered \o handed
\* `onMessage(chatMessage)` is called inside the callback, before it
\* returns: the handler gets each message during its own notification, after
\* those of the notifications before (ChatInterface: [...prev, message]).
HandOver(handed, delivered) == handed \o delivered

\* The Transport raises a notification for a subscribed device and runs
\* the callback; handlerThrows is what onMessage does when it is called.
\* What the Transport does with a callback that raised is its own affair:
\* ending the subscription is the worst it can do.
Notification(id, data, t, handlerThrows) ==
    LET delivered    == Delivered(id, data, t)
        handlerThrew == delivered # <<>> /\ handlerThrows
        raised       == CallbackRaises(delivered = <<>>, handlerThrew)
    IN  /\ id \in subs
        /\ subs' = IF raised THEN subs \ {id} ELSE subs
        /\ ev' = Observe([op |-> "notification", id |-> id, data |-> data,
                  ret |-> IF raised THEN "throws" ELSE "void",
                  delivered |-> delivered, handlerThrew |-> handlerThrew,
                  afterFailure |->
                      /\ ev.op = "notification"
                      /\ "data" \in DOMAIN ev
                      /\ ev.id = id
                      /\ (~ValidPayload(ev.data) \/ ev.handlerThrew)])
        /\ IF "order" \in watch
           THEN /\ Len(log.raised) < MaxLog
                /\ log' = [raised |-> Append(log.raised,
                                        [id |-> id, data |-> data, at |-> t]),
                           handed |-> HandOver(log.handed, delivered)]
           ELSE UNCHANGED log
        /\ UNCHANGED <<watch, links, devices, connections, pending,
                       cleanupCall, scanning, timers>>

(* --------------------------- specification ---------------------------- *)
ConnectCalls ==
    { [op |-> "connect", id |-> id, stage |-> st,
       held |-> [name |-> DisplayName(id, r.name), rssi |-> r.rssi,
                 lastSeen |-> t]] :
      id \in DeviceIds, st \in {"connect", "services"},
      r \in ScanResults, t \in Times }
DisconnectCalls == { [op |-> "disconnect", id |-> id] : id \in DeviceIds }
SendCalls ==
    { [op |-> "send", id |-> id, text |-> t] : id \in DeviceIds, t \in Texts }

\* The connection lifecycle: scanning, discovery, connect, disconnect and
\* cleanup, with up to MaxInflight calls suspended at once.
Next ==
    \/ \E ok \in BOOLEAN : StartScanning(ok)
    \/ \E ok \in BOOLEAN : StopScanning(ok)
    \/ \E ok \in BOOLEAN : ScanTimerFires(ok)
    \/ \E e \in ScanInputs : DiscoveryEvent(e.id, e.result, e.at)
    \/ \E id \in DeviceIds : ConnectCall(id)
    \/ \E c \in ConnectCalls, ok \in BOOLEAN : ConnectSettles(c, ok)
    \/ \E c \in ConnectCalls, ok \in BOOLEAN : ServicesSettle(c, ok)
    \/ \E id \in DeviceIds : DisconnectCall(id)
    \/ \E c \in DisconnectCalls, ok \in BOOLEAN : DisconnectSettles(c, ok)
    \/ CleanupCall
    \/ \E ok \in BOOLEAN : CleanupDisconnectSettles(ok)
    \/ \E ok \in BOOLEAN : CleanupStopSettles(ok)

Spec == Init /\ [][Next]_vars
SpecDisconnect == InitDisconnect /\ [][Next]_vars
SpecConnect == InitConnect /\ [][Next]_vars

\* The message pipeline over the connection lifecycle of one peer.
NextMsg ==
    \/ \E ok \in BOOLEAN : StartScanning(ok)
    \/ DiscoveryEvent(Id1, [name |-> NameBob, rssi |-> -40], 0)
    \/ ConnectCall(Id1)
    \/ \E c \in ConnectCalls, ok \in BOOLEAN : ConnectSettles(c, ok)
    \/ \E c \in ConnectCalls, ok \in BOOLEAN : ServicesSettle(c, ok)
    \/ DisconnectCall(Id1)
    \/ \E c \in DisconnectCalls, ok \in BOOLEAN : DisconnectSettles(c, ok)
    \/ \E id \in DeviceIds, t \in Texts, salt \in Salts :
          HandleSendMessage(id, t, salt)
    \/ \E c \in SendCalls, ok \in BOOLEAN : WriteSettles(c, ok)
    \/ \E id \in DeviceIds, ok \in BOOLEAN : StartMessageListener(id, ok)
    \/ \E id \in DeviceIds, data \in Payloads, t \in Times,
          handlerThrows \in BOOLEAN :
          Notification(id, data, t, handlerThrows)

SpecSend == InitSend /\ [][NextMsg]_vars
SpecReceive == InitReceive /\ [][NextMsg]_vars

\* cleanup() among the connects and disconnects of two peers, each
\* discovered with the same advertisement.
NextCleanup ==
    \/ \E ok \in BOOLEAN : StartScanning(ok)
    \/ \E id \in DeviceIds :
          DiscoveryEvent(id, [name |-> NameBob, rssi |-> -40], 0)
    \/ \E id \in DeviceIds : ConnectCall(id)
    \/ \E c \in ConnectCalls, ok \in BOOLEAN : ConnectSettles(c, ok)
    \/ \E c \in ConnectCalls, ok \in BOOLEAN : ServicesSettle(c, ok)
    \/ \E id \in DeviceIds : DisconnectCall(id)
    \/ \E c \in DisconnectCalls, ok \in BOOLEAN : DisconnectSettles(c, ok)
    \/ CleanupCall
    \/ \E ok \in BOOLEAN : CleanupDisconnectSettles(ok)
    \/ \E ok \in BOOLEAN : CleanupStopSettles(ok)

SpecCleanup == InitCleanup /\ [][NextCleanup]_vars
SpecNoSession == InitNoSession /\ [][NextCleanup]_vars
SpecLinks == InitLinks /\ [][NextCleanup]_vars
SpecInflight == InitInflight /\ [][NextCleanup]_vars

\* Scanning alone: starts, stops, window timers and discovery events.
NextScan ==
    \/ \E ok \in BOOLEAN : StartScanning(ok)
    \/ \E ok \in BOOLEAN : StopScanning(ok)
    \/ \E ok \in BOOLEAN : ScanTimerFires(ok)
    \/ \E e \in ScanInputs : DiscoveryEvent(e.id, e.result, e.at)

SpecScan == InitScan /\ [][NextScan]_vars

\* A timer armed by setTimeout runs its callback in the end.
SpecScanFair ==
    SpecScan /\ WF_vars(\E ok \in BOOLEAN : ScanTimerFires(ok))

\* The moderation gate called on its own, with one peer found and
\* connected around it.
NextCheck ==
    \/ \E c \in CheckInputs : Check(c)
    \/ \E ok \in BOOLEAN : StartScanning(ok)
    \/ DiscoveryEvent(Id1, [name |-> NameBob, rssi |-> -40], 0)
    \/ ConnectCall(Id1)
    \/ \E c \in ConnectCalls, ok \in BOOLEAN : ConnectSettles(c, ok)
    \/ \E c \in ConnectCalls, ok \in BOOLEAN : ServicesSettle(c, ok)

SpecCheck == InitCheck /\ [][NextCheck]_vars

\* Every operation of the service, over the lifecycle of one peer.
NextOutcome ==
    \/ \E ok \in BOOLEAN : Initialize(ok)
    \/ \E ok \in BOOLEAN : StartScanning(ok)
    \/ \E ok \in BOOLEAN : StopScanning(ok)
    \/ \E ok \in BOOLEAN : ScanTimerFires(ok)
    \/ DiscoveryEvent(Id1, [name |-> NameBob, rssi |-> -40], 0)
    \/ \E id \in DeviceIds : ConnectCall(id)
    \/ \E c \in ConnectCalls, ok \in BOOLEAN : ConnectSettles(c, ok)
    \/ \E c \in ConnectCalls, ok \in BOOLEAN : ServicesSettle(c, ok)
    \/ DisconnectCall(Id1)
    \/ \E c \in DisconnectCalls, ok \in BOOLEAN : DisconnectSettles(c, ok)
    \/ CleanupCall
    \/ \E ok \in BOOLEAN : CleanupDisconnectSettles(ok)
    \/ \E ok \in BOOLEAN : CleanupStopSettles(ok)
    \/ \E id \in DeviceIds, t \in Texts, salt \in Salts :
          HandleSendMessage(id, t, salt)
    \/ \E c \in SendCalls, ok \in BOOLEAN : WriteSettles(c, ok)
    \/ \E ok \in BOOLEAN : StartMessageListener(Id1, ok)
    \/ \E data \in Payloads, t \in Times, handlerThrows \in BOOLEAN :
          Notification(Id1, data, t, handlerThrows)

SpecOutcome == InitOutcome /\ [][NextOutcome]_vars

\* The notifications of the peers alone, with the log of what was raised
\* and what was handed over.
OrderPayloads == {TextEncode(AesEncrypt(TextHi, EncryptionKey, 1)), RawBytes}
NextOrder ==
    \/ \E id \in DeviceIds, ok \in BOOLEAN : StartMessageListener(id, ok)
    \/ \E id \in DeviceIds, data \in OrderPayloads, t \in Times,
          handlerThrows \in BOOLEAN :
          Notification(id, data, t, handlerThrows)

SpecOrder == InitOrder /\ [][NextOrder]_vars

(* ------------------------------ claims -------------------------------- *)
Known(id) == devices[id] # None
Connected(id) == Known(id) /\ devices[id].connected
ServiceState == <<devices, connections, pending, cleanupCall, subs>>

\* C1: in every reachable state a known device's `connected` flag is true
\* exactly when connections holds a Session for its id.
C1_ConnectedIffSession ==
    \A id \in DeviceIds : Known(id) => (Connected(id) <=> HasConnection(id))

\* C2: a discovery event for an id already in the registry leaves that
\* device's `connected` flag as it was before the event.
C2_UpsertPreservesConnected ==
    (ev.op = "discovery" /\ ev.known) =>
        devices[ev.id].connected = ev.wasConnected

\* C3: when disconnectFromDevice(id) has completed, no Session for id
\* exists and the registry's `connected` for id is false, whatever the
\* Transport's disconnect did.
C3_DisconnectClearsLocalState ==
    ev.op = "disconnect" => (~HasConnection(ev.id) /\ ~Connected(ev.id))

\* C4: when cleanup() has completed after being called with two or more
\* connected devices, none of them has a Session or connected = true, also
\* when the Transport's disconnect failed for one of them.
C4_CleanupDisconnectsAll ==
    (ev.op = "cleanup" /\ Cardinality(ev.atCall) >= 2
                       /\ Cardinality(ev.failed) <= 1) =>
        \A id \in ev.atCall : ~HasConnection(id) /\ ~Connected(id)

\* C5: a connectToDevice(id) issued while another connect for id is under
\* way, or while id has a Session, starts no Transport connect.
C5_NoSecondConnect ==
    (ev.op \in {"connect", "connectCall"} /\ ev.known /\ ev.busy) =>
        ev.tcalls = <<>>

C7_UndecodableDropped ==
    (ev.op = "notification" /\ ~ValidPayload(ev.data)) =>
        ev.delivered = <<>>

\* C8: connectToDevice(id) for an id that is not in the registry returns
\* false, calls nothing of the Transport and changes neither the registry
\* nor any Session nor any suspended call.
C8_ConnectUnknown ==
    [][ (ev'.op \in {"connect", "connectCall"} /\ ~ev'.known) =>
            /\ ev'.op = "connect"
            /\ ev'.ret = FALSE
            /\ ev'.tcalls = <<>>
            /\ UNCHANGED <<ServiceState, scanning, timers>> ]_vars

\* connectToDevice fails on an unknown id while another device has a
\* Session.
C8_Witness ==
    /\ ev.op = "connect" /\ ~ev.known /\ ev.ret = FALSE
    /\ connections # <<>>

\* C9: connectToDevice(id) for a known device returns true exactly when
\* the Transport connect and the service discovery both succeeded, and then
\* id has a Session and connected = true; otherwise it returns false and
\* leaves the registry and the Sessions as they were.
C9_ConnectResult ==
    [][ (ev'.op = "connect" /\ ev'.known) =>
            /\ ev'.ret = (ev'.connectOk /\ ev'.servicesOk)
            /\ ev'.ret =>
                  /\ ev'.id \in Ids(connections')
                  /\ devices'[ev'.id].connected
            /\ ~ev'.ret => UNCHANGED <<devices, connections>> ]_vars

\* A connect whose Transport connect succeeded and whose service discovery
\* failed has returned false.
C9_Witness ==
    /\ ev.op = "connect" /\ ev.known
    /\ ev.connectOk /\ ~ev.servicesOk /\ ev.ret = FALSE

\* C10: sendMessage(id, text) with no Session for id returns false, writes
\* nothing to the Transport and changes no registry or Session state.
C10_SendWithoutSession ==
    [][ (ev'.op \in {"send", "sendCall"} /\ ~ev'.hadSession) =>
            /\ ev'.op = "send"
            /\ ev'.ret = FALSE
            /\ ev'.tcalls = <<>>
            /\ UNCHANGED <<ServiceState, scanning, timers>> ]_vars

\* sendMessage has returned false for a device without a Session while
\* another device has one.
C10_Witness ==
    /\ ev.op = "send" /\ ~ev.hadSession /\ ev.ret = FALSE
    /\ connections # <<>>

\* C11: a sendMessage for a device with a Session issues exactly one
\* BleClient.write, carrying the whole encrypted text to that device, and
\* nothing more when the write settles; it goes on to the await of that
\* write and returns true when the write succeeded and false when it
\* failed, a boolean in either case and never a throw.
C11_OneWritePerSend ==
    /\ (ev.op \in {"send", "sendCall"} /\ ev.hadSession) =>
          /\ ev.op = "sendCall"
          /\ Len(ev.tcalls) = 1
          /\ ev.tcalls[1].to = ev.id
          /\ ev.tcalls[1].write.bytes = "utf8"
          /\ AesDecrypt(ev.tcalls[1].write.of, EncryptionKey)
                = [utf8 |-> TRUE, text |-> ev.text]
          /\ pending = SetToBag({[op |-> "send", id |-> ev.id,
                                  text |-> ev.text]})
                       (+) [c \in {x \in BagToSet(pending) : x.op # "send"}
                              |-> pending[c]]
    /\ ev.op = "sendDone" =>
          /\ ev.ret = ev.ok
          /\ ev.tcalls = <<>>
          /\ \A c \in BagToSet(pending) : c.op # "send"
    /\ ev.op = "sendCall" => ev.ret = "pending"

\* A send whose single write the Transport rejected has returned false.
C11_Witness ==
    ev.op = "sendDone" /\ ~ev.ok /\ ev.ret = FALSE

\* C12: a notification on a subscribed device whose bytes are the encoding
\* of a ciphertext of the text m under the shared key hands exactly one
\* ChatMessage to onMessage: its message is m, its deviceId the device,
\* its direction received (sent = false) and encrypted = true.
C12_ValidDeliveredOnce ==
    (ev.op = "notification" /\ ValidPayload(ev.data)) =>
        /\ Len(ev.delivered) = 1
        /\ ev.delivered[1].message = ev.data.of.plain
        /\ ev.delivered[1].deviceId = ev.id
        /\ ev.delivered[1].sent = FALSE
        /\ ev.delivered[1].encrypted = TRUE

\* A valid notification was handled for a device that has a Session.
C12_Witness ==
    /\ ev.op = "notification" /\ ValidPayload(ev.data)
    /\ Len(ev.delivered) = 1
    /\ HasConnection(ev.id)

\* C13: a notification never ends the subscription of its device, and a
\* valid notification that follows a malformed one, or one whose onMessage
\* threw, is decoded and handed to onMessage all the same.
C13_SubscriptionSurvives ==
    [][ ev'.op = "notification" =>
            /\ subs' = subs
            /\ ev'.ret = "void"
            /\ (ev'.afterFailure /\ ValidPayload(ev'.data)) =>
                  /\ Len(ev'.delivered) = 1
                  /\ ev'.delivered[1].message = ev'.data.of.plain ]_vars

\* A valid notification was delivered right after a notification of the
\* same device that was dropped as undecodable.
C13_Witness ==
    /\ ev.op = "notification" /\ ev.afterFailure
    /\ ValidPayload(ev.data) /\ Len(ev.delivered) = 1
    /\ ev.id \in subs

\* The ChatMessage m can be the one made from the raised notification r.
Corresponds(m, r) ==
    /\ m.deviceId = r.id
    /\ m.timestamp = r.at
    /\ m.id = ToString(r.at)
    /\ ValidPayload(r.data) => m.message = r.data.of.plain

\* ms is made, in order, from some of the notifications rs.
RECURSIVE InOrderOf(_, _)
InOrderOf(ms, rs) ==
    IF ms = <<>> THEN TRUE
    ELSE IF rs = <<>> THEN FALSE
    ELSE \/ Corresponds(Head(ms), Head(rs)) /\ InOrderOf(Tail(ms), Tail(rs))
         \/ InOrderOf(ms, Tail(rs))

RaisedFor(d) == SelectSeq(log.raised, LAMBDA r : r.id = d)
HandedFor(d) == SelectSeq(log.handed, LAMBDA m : m.deviceId = d)

\* C14: for each device, the ChatMessages handed to onMessage are, in the
\* same order, those of some of the notifications the Transport raised
\* for that device.
C14_DeliveredInOrder ==
    \A d \in DeviceIds : InOrderOf(HandedFor(d), RaisedFor(d))

\* Two messages of different clock readings were handed over for one
\* device, around a notification of that device that was dropped.
C14_Witness ==
    \E d \in DeviceIds :
        /\ Len(RaisedFor(d)) = 3 /\ Len(HandedFor(d)) = 2
        /\ ~ValidPayload(RaisedFor(d)[2].data)
        /\ HandedFor(d)[1].timestamp # HandedFor(d)[2].timestamp

\* C15 as stated: when cleanup() has returned, it has called
\* disconnectFromDevice on every device that had a Session when it was
\* called.
C15_CleanupAttemptsAll ==
    ev.op = "cleanup" => ev.atCall \subseteq ev.attempted

\* C15: when cleanup() has returned (which it does after its stopScanning,
\* and without raising), it has called disconnectFromDevice on every device
\* that had a Session when it was called, whether or not an earlier
\* disconnect failed, except those whose Session a direct
\* disconnectFromDevice removed while cleanup() was suspended.
C15_CleanupAttemptsRemaining ==
    ev.op = "cleanup" =>
        /\ ev.atCall \subseteq (ev.attempted \cup ev.gone)
        /\ ev.ret = "void"

\* cleanup() has gone through two devices although the Transport disconnect
\* of one of them, and its stopLEScan, were rejected.
C15_Witness ==
    /\ ev.op = "cleanup" /\ ~ev.ok
    /\ Cardinality(ev.atCall) = 2 /\ ev.attempted = ev.atCall
    /\ ev.failed # {} /\ ev.gone = {}

\* C16: a startScanning() called while a scan is on opens no discovery
\* subscription (it does nothing, or it throws) and arms no timer, and no
\* more than one window timer is ever pending.
C16_NoSecondScan ==
    /\ (ev.op = "startScanning" /\ ev.wasScanning) =>
          /\ ev.tcalls = <<>> \/ ev.ret = "throws"
          /\ ev.armed = 0
    /\ timers <= 1

\* C17: a scan that is on is off again in the end, by its window timer at
\* the latest.
C17_ScanEnds == scanning ~> ~scanning

\* C18: after a stopScanning() has returned, no discovery event reaches the
\* registry before the next startScanning(); a stopScanning() with no scan
\* on changes nothing; a stopScanning() right after one that went through
\* changes nothing either.
C18_StopEndsDiscovery ==
    [][ /\ (ev.op = "stopScanning" /\ ev.wasScanning) =>
              ev'.op # "discovery"
        /\ ev'.op = "stopScanning" =>
              /\ UNCHANGED <<ServiceState, timers>>
              /\ ~scanning => UNCHANGED scanning
              /\ (ev.op = "stopScanning" /\ ev.ok) => UNCHANGED scanning
      ]_vars

\* C19: a startScanning() whose requestLEScan is rejected throws to its
\* caller, arms no timer, leaves the scan as it was (off stays off) and
\* leaves the registry and everything else of the service unchanged.
C19_FailedStartChangesNothing ==
    [][ (ev'.op = "startScanning" /\ ~ev'.ok) =>
            /\ ev'.ret = "throws"
            /\ ev'.armed = 0
            /\ UNCHANGED <<scanning, timers, ServiceState>> ]_vars

\* A startScanning() has thrown with no scan on, no timer pending and a
\* device in the registry from an earlier scan.
C19_Witness ==
    /\ ev.op = "startScanning" /\ ~ev.ok /\ ev.ret = "throws"
    /\ ~scanning /\ timers = 0
    /\ \E id \in DeviceIds : Known(id)

\* The operations that return a boolean.
BooleanOps == {"connect", "send", "sendDone"}

\* C20: initialize() and startScanning() throw to their caller exactly when
\* their Transport call failed; no other operation throws: connect and send
\* return a boolean, false when a Transport call of theirs failed, and
\* disconnect, stopScanning, the window timer, the message listener, its
\* callback and cleanup return normally whatever the Transport did.
C20_OnlyInitAndStartRaise ==
    ev.op \notin {"init", "other"} =>
        IF ev.op \in {"initialize", "startScanning"}
        THEN (ev.ret = "throws") <=> ev.failed
        ELSE IF ev.op \in BooleanOps
        THEN ev.ret \in BOOLEAN /\ (ev.failed => ev.ret = FALSE)
        ELSE ev.ret # "throws"

\* initialize() has thrown on a failed BleClient.initialize().
C20_Witness ==
    ev.op = "initialize" /\ ev.failed /\ ev.ret = "throws"

\* C21: any two ChatMessages handed over for one device have different ids,
\* also when both were made at the same clock reading.
C21_MessageIdsDistinct ==
    \A d \in DeviceIds :
        \A i, j \in 1..Len(HandedFor(d)) :
            i # j => HandedFor(d)[i].id # HandedFor(d)[j].id

\* C22: a disconnectFromDevice(id) that finds no Session for id returns
\* normally, whatever the Transport's disconnect did, and neither its call
\* nor its completion changes the registry or any Session.
C22_DisconnectWithoutSession ==
    [][ /\ ev'.op = "disconnectCall" => UNCHANGED <<devices, connections>>
        /\ (ev'.op = "disconnect" /\ ~ev'.hadSession) =>
              /\ ev'.ret = "void"
              /\ UNCHANGED <<devices, connections, cleanupCall, subs,
                             scanning, timers>> ]_vars

\* A disconnectFromDevice of a known device without a Session has
\* returned, its Transport disconnect rejected, while another device has a
\* Session.
C22_Witness ==
    /\ ev.op = "disconnect" /\ ~ev.hadSession /\ ~ev.ok
    /\ Known(ev.id)
    /\ connections # <<>>

\* C23: a notification subscription is established only for a device that
\* has a Session: a startMessageListener for a device without one adds no
\* subscription (the Transport keeps one callback per device, so a repeated
\* call for the same device never adds a second one).
C23_SubscribeOnlyWithSession ==
    [][ \A id \in subs' \ subs : HasConnection(id) ]_vars

\* C24: checkContentModeration(text) returns flagged, with the one fixed
\* reason, exactly when text holds a match of the keyword pattern, of the
\* 16-digit pattern or of the ddd-dd-dddd pattern, and not flagged
\* otherwise; it changes nothing of the service.
C24_CheckFlagsSensitive ==
    [][ ev'.op = "check" =>
            /\ ev'.ret.flagged = ev'.sensitive
            /\ ev'.ret.flagged => ev'.ret.reason = ModerationReason
            /\ ev'.ret.flagged => DOMAIN ev'.ret = {"flagged", "reason"}
            /\ ~ev'.ret.flagged => DOMAIN ev'.ret = {"flagged"}
            /\ UNCHANGED <<ServiceState, scanning, timers>> ]_vars

\* 'my ssn is 123-45-6789' was flagged while a device had a Session.
C24_Witness ==
    /\ ev.op = "check" /\ ev.text = TextSsn /\ ev.ret.flagged
    /\ connections # <<>>

\* C25: a scan started with no scan on is not ended by the window timer of
\* an earlier scan: with that timer still pending besides its own, the
\* timer that fires next (the older one) leaves the new scan on.
C25_StaleTimerSparesScan ==
    [][ (ev.op = "startScanning" /\ ev.ok /\ ~ev.wasScanning /\ timers > 1) =>
            (ev'.op = "scanTimer" => scanning') ]_vars

\* No Session is left and no device of the registry is connected.
AllDisconnected ==
    /\ connections = <<>>
    /\ \A id \in DeviceIds : ~Connected(id)

\* C26: when cleanup() has returned with every Session gone, the completion
\* of a connectToDevice that was awaiting the Transport meanwhile leaves it
\* so: still no Session and no connected device.
C26_CleanupCoversInflightConnect ==
    [][ (ev.op = "cleanup" /\ AllDisconnected /\ ev'.op = "connect") =>
            AllDisconnected' ]_vars

\* No call of the service is suspended at an await.
Quiescent == pending = EmptyBag /\ cleanupCall = None

\* C27: with no call under way, every device the Transport has an open link
\* to has a Session: a connect whose service discovery failed has closed
\* its link again.
C27_NoLinkWithoutSession ==
    Quiescent => \A id \in links : HasConnection(id)

\* C28: a connectToDevice(id) that returns true changes nothing of the
\* registry but `connected` of id: what a discovery event wrote for id
\* while the connect was awaiting the Transport is still there.
C28_ConnectKeepsLaterDiscovery ==
    [][ (ev'.op = "connect" /\ ev'.ret = TRUE) =>
            devices' = [devices EXCEPT ![ev'.id].connected = TRUE] ]_vars

====
